---- MODULE Spec2Model ----
(***************************************************************************)
(* The session/query state machine of the assistant page                   *)
(* (src/frontend/src/app/insurance/page.tsx, component MedicalPage):       *)
(* the React state of the component, the three network operations          *)
(* (hydrate on mount, submit, clear) with their requests in flight, and    *)
(* the user events that feed them.  One action is one run of an event      *)
(* handler or of a promise continuation on the single JavaScript thread.   *)
(***************************************************************************)
EXTENDS Integers, Sequences, FiniteSets, TLC

\* ---------------------------------------------------------------- bounds
MaxServerHist == 2      \* longest history the server sends
MaxSubmits == 2         \* submissions admitted in one behaviour
MaxClears == 2          \* clicks on "Clear Chat History" in one behaviour
MaxEngines == 2         \* SpeechRecognition objects created in one behaviour

\* ---------------------------------------------------------------- values
Texts == {"a"}
QueryTexts == {""} \cup Texts
Files == {"f1"}
Answers == {"r1", "r2"}
MoreFiles == {"f1", "f2"}
ClearBodies == {"ok", "err"}
Transcripts == {"t"}

\* `undefined`, the initial value of latestResponse and of an omitted
\* latest_response
Absent == "undefined"

\* `null`, the empty attachment slot
NoFile == [file |-> "none", type |-> "none"]

ChatMessage == [type : {"human", "ai"}, content : Texts]

RECURSIVE SeqsUpTo(_, _)
SeqsUpTo(S, n) ==
  IF n = 0 THEN {<<>>}
  ELSE LET shorter == SeqsUpTo(S, n - 1)
       IN  shorter \cup {Append(s, m) : s \in {t \in shorter : Len(t) = n - 1}, m \in S}

ServerHistories == SeqsUpTo(ChatMessage, MaxServerHist)

\* The body of a hydrate or submit response.  latest_response is optional;
\* hasHistory = FALSE is a body without a history field, which the handlers
\* test for.
APIResponse ==
  [hasHistory : {TRUE}, history : ServerHistories, latest_response : Answers \cup {Absent}]
  \cup [hasHistory : {FALSE}, history : {<<>>}, latest_response : Answers \cup {Absent}]

\* no response: the last step was not the continuation of a request
NoResponse == [of |-> "none", body |-> "none", hasHistory |-> FALSE, history |-> <<>>, latest_response |-> Absent]

\* ---------------------------------------------------------------- state
VARIABLES
  history,          \* useState<ChatMessage[]>([])
  latestResponse,   \* useState<APIResponse["latest_response"]>(undefined)
  query,            \* useState("")
  isLoading,        \* useState(false)
  attachedFile,     \* useState<{file, type} | null>(null)
  hydrate,          \* the GET issued by the mount effect
  submits,          \* the POSTs issued by handleSubmit, by order of issue
  clears,           \* the POSTs issued by clearChat, by order of issue
  response,         \* the body the continuation that ran last was resumed with
  isListening,      \* useState(false)
  engines,          \* the SpeechRecognition objects toggleVoice has started, by order of creation
  alertShown,       \* alert("Browser does not support speech recognition.") was raised
  console,          \* the messages written with console.error
  unhandled         \* the handlers whose promise rejected with nothing to catch it

voice == <<isListening, engines, alertShown>>

errors == <<console, unhandled>>

session == <<history, latestResponse, isLoading, attachedFile, hydrate, submits, clears>>

vars == <<history, latestResponse, query, isLoading, attachedFile, hydrate, submits, clears, response,
          isListening, engines, alertShown, console, unhandled>>

NoRequest == [status |-> "unused", formData |-> <<>>]

\* a SpeechRecognition object not yet created
NoEngine == [status |-> "unused", results |-> 0]

Init ==
  /\ history = <<>>
  /\ latestResponse = Absent
  /\ query = ""
  /\ isLoading = FALSE
  /\ attachedFile = NoFile
  /\ hydrate = "pending"
  /\ submits = [k \in 1..MaxSubmits |-> NoRequest]
  /\ clears = [k \in 1..MaxClears |-> "unused"]
  /\ response = NoResponse
  /\ isListening = FALSE
  /\ engines = [e \in 1..MaxEngines |-> NoEngine]
  /\ alertShown = FALSE
  /\ console = {}
  /\ unhandled = {}

\* ---------------------------------------------------------------- helpers
\* the slot the next request takes: requests are numbered by order of issue
NextSlot(unused) == CHOOSE k \in unused : \A j \in unused : k <= j

UnusedSubmits == {k \in 1..MaxSubmits : submits[k].status = "unused"}

UnusedClears == {k \in 1..MaxClears : clears[k] = "unused"}

UnusedEngines == {e \in 1..MaxEngines : engines[e].status = "unused"}

\* the engines that were started and have not ended
Running == {e \in 1..MaxEngines : engines[e].status \in {"started", "listening"}}

InFlight == {k \in 1..MaxSubmits : submits[k].status = "sent"}

\* the body a continuation is resumed with, tagged with its request
Received(op, data) ==
  [of |-> op, body |-> "json", hasHistory |-> data.hasHistory, history |-> data.history,
   latest_response |-> data.latest_response]

\* ---------------------------------------------------------------- hydrate
\* data.history || []
HistoryOrEmpty(data) == IF data.hasHistory THEN data.history ELSE <<>>

\* HydrateThen with the guard handleSubmit puts on latest_response
HydrateThenKeepsLatest(data) ==
  /\ hydrate = "pending"
  /\ history' = IF data.hasHistory THEN data.history ELSE <<>>
  /\ latestResponse' = IF data.latest_response # Absent THEN data.latest_response ELSE latestResponse
  /\ hydrate' = "resolved"
  /\ response' = Received("hydrate", data)
  /\ UNCHANGED <<voice, errors, query, isLoading, attachedFile, submits, clears>>

\* .then((data) => { setHistory(data.history || []); setLatestResponse(data.latest_response) })
HydrateThen(data) ==
  /\ hydrate = "pending"
  /\ history' = HistoryOrEmpty(data)
  /\ latestResponse' = data.latest_response
  /\ hydrate' = "resolved"
  /\ response' = Received("hydrate", data)
  /\ UNCHANGED <<voice, errors, query, isLoading, attachedFile, submits, clears>>

\* a catch that also resets the store
HydrateCatchResets ==
  /\ hydrate = "pending"
  /\ hydrate' = "rejected"
  /\ history' = <<>>
  /\ latestResponse' = Absent
  /\ response' = NoResponse
  /\ console' = console \cup {"Failed to load history:"}
  /\ UNCHANGED unhandled
  /\ UNCHANGED <<voice, query, isLoading, attachedFile, submits, clears>>

\* .catch((err) => console.error(...)): the request or its parse failed
HydrateCatch ==
  /\ hydrate = "pending"
  /\ hydrate' = "rejected"
  /\ response' = NoResponse
  /\ console' = console \cup {"Failed to load history:"}
  /\ UNCHANGED unhandled
  /\ UNCHANGED <<voice, history, latestResponse, query, isLoading, attachedFile, submits, clears>>

\* ---------------------------------------------------------------- submit
\* a submit button that is never disabled
SubmitAlwaysEnabled == TRUE

\* <button type="submit" disabled={isLoading}>: the only way to raise the
\* form's submit event
SubmitEnabled == ~isLoading

\* the document field appended without the else
BuildFormDataBoth(q, att) ==
  <<[name |-> "query", value |-> q]>> \o
  (IF att # NoFile
     THEN (IF att.type = "image" THEN <<[name |-> "image", value |-> att.file]>> ELSE <<>>)
          \o <<[name |-> "document", value |-> att.file]>>
     ELSE <<>>)

\* formData.append("query", query); then the image or the document field
BuildFormData(q, att) ==
  <<[name |-> "query", value |-> q]>> \o
  (IF att # NoFile
     THEN IF att.type = "image"
            THEN <<[name |-> "image", value |-> att.file]>>
            ELSE <<[name |-> "document", value |-> att.file]>>
     ELSE <<>>)

\* handleSubmit without its early return
AdmitsEmpty(q, att) == TRUE

\* if (!query && !attachedFile) return;
Admitted(q, att) == ~(q = "" /\ att = NoFile)

\* handleSubmit with setHistory([message]) for the functional update
handleSubmitReplacesHistory ==
  IF ~Admitted(query, attachedFile)
    THEN UNCHANGED vars
    ELSE /\ UnusedSubmits # {}
         /\ isLoading' = TRUE
         /\ history' = <<[type |-> "human", content |-> query]>>
         /\ submits' = [submits EXCEPT ![NextSlot(UnusedSubmits)] =
                          [status |-> "sent", formData |-> BuildFormData(query, attachedFile)]]
         /\ response' = NoResponse
         /\ UNCHANGED <<voice, errors, latestResponse, query, attachedFile, hydrate, clears>>

\* handleSubmit putting the new message first
handleSubmitPrepends ==
  IF ~Admitted(query, attachedFile)
    THEN UNCHANGED vars
    ELSE /\ UnusedSubmits # {}
         /\ isLoading' = TRUE
         /\ history' = <<[type |-> "human", content |-> query]>> \o history
         /\ submits' = [submits EXCEPT ![NextSlot(UnusedSubmits)] =
                          [status |-> "sent", formData |-> BuildFormData(query, attachedFile)]]
         /\ response' = NoResponse
         /\ UNCHANGED <<voice, errors, latestResponse, query, attachedFile, hydrate, clears>>

\* handleSubmit up to the await of fetch
handleSubmit ==
  IF ~Admitted(query, attachedFile)
    THEN UNCHANGED vars
    ELSE /\ UnusedSubmits # {}
         /\ isLoading' = TRUE
         /\ history' = Append(history, [type |-> "human", content |-> query])
         /\ submits' = [submits EXCEPT ![NextSlot(UnusedSubmits)] =
                          [status |-> "sent", formData |-> BuildFormData(query, attachedFile)]]
         /\ response' = NoResponse
         /\ UNCHANGED <<voice, errors, latestResponse, query, attachedFile, hydrate, clears>>

Submit ==
  /\ SubmitEnabled
  /\ handleSubmit

\* the server's history put after the local one
ReconcileHistoryOnTop(data, prev) == IF data.hasHistory THEN prev \o data.history ELSE prev

\* if (data.history) setHistory(data.history);
ReconcileHistory(data, prev) == IF data.hasHistory THEN data.history ELSE prev

\* if (data.latest_response) setLatestResponse(data.latest_response);
ReconcileLatest(data, prev) ==
  IF data.latest_response # Absent THEN data.latest_response ELSE prev

\* handleSubmit after the awaits: the try block's tail and finally
SubmitThen(k, data) ==
  /\ submits[k].status = "sent"
  /\ history' = ReconcileHistory(data, history)
  /\ latestResponse' = ReconcileLatest(data, latestResponse)
  /\ query' = ""
  /\ attachedFile' = NoFile
  /\ isLoading' = FALSE
  /\ submits' = [submits EXCEPT ![k] = [status |-> "resolved", formData |-> <<>>]]
  /\ response' = Received("submit", data)
  /\ UNCHANGED <<voice, errors, hydrate, clears>>

\* the catch block taking the optimistic entry back
SubmitCatchRollsBack(k) ==
  /\ submits[k].status = "sent"
  /\ isLoading' = FALSE
  /\ history' = SubSeq(history, 1, Len(history) - 1)
  /\ submits' = [submits EXCEPT ![k] = [status |-> "rejected", formData |-> <<>>]]
  /\ response' = NoResponse
  /\ console' = console \cup {"Error submitting query:"}
  /\ UNCHANGED unhandled
  /\ UNCHANGED <<voice, latestResponse, query, attachedFile, hydrate, clears>>

\* the catch block dropping the answer on display
SubmitCatchResetsLatest(k) ==
  /\ submits[k].status = "sent"
  /\ isLoading' = FALSE
  /\ latestResponse' = Absent
  /\ submits' = [submits EXCEPT ![k] = [status |-> "rejected", formData |-> <<>>]]
  /\ response' = NoResponse
  /\ console' = console \cup {"Error submitting query:"}
  /\ UNCHANGED unhandled
  /\ UNCHANGED <<voice, history, query, attachedFile, hydrate, clears>>

\* setQuery("") and setAttachedFile(null) moved to the finally block
SubmitCatchConsumes(k) ==
  /\ submits[k].status = "sent"
  /\ isLoading' = FALSE
  /\ query' = ""
  /\ attachedFile' = NoFile
  /\ submits' = [submits EXCEPT ![k] = [status |-> "rejected", formData |-> <<>>]]
  /\ response' = NoResponse
  /\ console' = console \cup {"Error submitting query:"}
  /\ UNCHANGED unhandled
  /\ UNCHANGED <<voice, history, latestResponse, hydrate, clears>>

\* setIsLoading(false) at the end of the try block, with no finally
SubmitCatchKeepsLoading(k) ==
  /\ submits[k].status = "sent"
  /\ submits' = [submits EXCEPT ![k] = [status |-> "rejected", formData |-> <<>>]]
  /\ response' = NoResponse
  /\ console' = console \cup {"Error submitting query:"}
  /\ UNCHANGED unhandled
  /\ UNCHANGED <<voice, history, latestResponse, query, isLoading, attachedFile, hydrate, clears>>

\* handleSubmit when an await throws: catch and finally
SubmitCatch(k) ==
  /\ submits[k].status = "sent"
  /\ isLoading' = FALSE
  /\ submits' = [submits EXCEPT ![k] = [status |-> "rejected", formData |-> <<>>]]
  /\ response' = NoResponse
  /\ console' = console \cup {"Error submitting query:"}
  /\ UNCHANGED unhandled
  /\ UNCHANGED <<voice, history, latestResponse, query, attachedFile, hydrate, clears>>

\* ---------------------------------------------------------------- clear
\* a clear that is skipped when there is nothing on display
clearChatIfNonEmpty ==
  /\ ~(history = <<>> /\ latestResponse = Absent)
  /\ UnusedClears # {}
  /\ clears' = [clears EXCEPT ![NextSlot(UnusedClears)] = "sent"]
  /\ response' = NoResponse
  /\ UNCHANGED <<voice, errors, history, latestResponse, query, isLoading, attachedFile, hydrate, submits>>

\* clearChat up to the await of fetch
clearChat ==
  /\ UnusedClears # {}
  /\ clears' = [clears EXCEPT ![NextSlot(UnusedClears)] = "sent"]
  /\ response' = NoResponse
  /\ UNCHANGED <<voice, errors, history, latestResponse, query, isLoading, attachedFile, hydrate, submits>>

\* a clear that aborts the submissions in flight
ClearThenAborts(k, body) ==
  /\ clears[k] = "sent"
  /\ history' = <<>>
  /\ latestResponse' = Absent
  /\ clears' = [clears EXCEPT ![k] = "resolved"]
  /\ submits' = [j \in 1..MaxSubmits |->
                   IF submits[j].status = "sent"
                     THEN [status |-> "rejected", formData |-> <<>>]
                     ELSE submits[j]]
  /\ isLoading' = FALSE
  /\ response' = [NoResponse EXCEPT !.of = "clear", !.body = body]
  /\ UNCHANGED <<voice, errors, query, attachedFile, hydrate>>

\* a clear that resets the store only when the answer is a success
ClearThenIfOk(k, body) ==
  /\ clears[k] = "sent"
  /\ history' = IF body = "ok" THEN <<>> ELSE history
  /\ latestResponse' = IF body = "ok" THEN Absent ELSE latestResponse
  /\ clears' = [clears EXCEPT ![k] = "resolved"]
  /\ response' = [NoResponse EXCEPT !.of = "clear", !.body = body]
  /\ UNCHANGED <<voice, errors, query, isLoading, attachedFile, hydrate, submits>>

\* clearChat after the await: setHistory([]); setLatestResponse(undefined).
\* fetch resolves whatever the status or the body of the answer.
ClearThen(k, body) ==
  /\ clears[k] = "sent"
  /\ history' = <<>>
  /\ latestResponse' = Absent
  /\ clears' = [clears EXCEPT ![k] = "resolved"]
  /\ response' = [NoResponse EXCEPT !.of = "clear", !.body = body]
  /\ UNCHANGED <<voice, errors, query, isLoading, attachedFile, hydrate, submits>>

\* the await throws: clearChat has no try, the rest of it never runs
ClearThrow(k) ==
  /\ clears[k] = "sent"
  /\ clears' = [clears EXCEPT ![k] = "rejected"]
  /\ response' = NoResponse
  /\ unhandled' = unhandled \cup {"clearChat"}
  /\ UNCHANGED console
  /\ UNCHANGED <<voice, history, latestResponse, query, isLoading, attachedFile, hydrate, submits>>

\* ---------------------------------------------------------------- input
\* text field: onChange={(e) => setQuery(e.target.value)}
TypeQuery(t) ==
  /\ query' = t
  /\ response' = NoResponse
  /\ UNCHANGED <<voice, errors, history, latestResponse, isLoading, attachedFile, hydrate, submits, clears>>

\* an image input that fills the slot only when it is empty
AttachImageKeepsFirst(f) ==
  /\ attachedFile' = IF f # "none" /\ attachedFile = NoFile
                       THEN [file |-> f, type |-> "image"] ELSE attachedFile
  /\ response' = NoResponse
  /\ UNCHANGED <<voice, errors, history, latestResponse, query, isLoading, hydrate, submits, clears>>

\* image input: if (e.target.files?.[0]) setAttachedFile({file, type: "image"})
AttachImage(f) ==
  /\ attachedFile' = IF f # "none" THEN [file |-> f, type |-> "image"] ELSE attachedFile
  /\ response' = NoResponse
  /\ UNCHANGED <<voice, errors, history, latestResponse, query, isLoading, hydrate, submits, clears>>

\* a document input that empties the slot when the dialog is cancelled
AttachDocCancelClears(f) ==
  /\ attachedFile' = IF f # "none" THEN [file |-> f, type |-> "doc"] ELSE NoFile
  /\ response' = NoResponse
  /\ UNCHANGED <<voice, errors, history, latestResponse, query, isLoading, hydrate, submits, clears>>

\* document input: if (e.target.files?.[0]) setAttachedFile({file, type: "doc"})
AttachDoc(f) ==
  /\ attachedFile' = IF f # "none" THEN [file |-> f, type |-> "doc"] ELSE attachedFile
  /\ response' = NoResponse
  /\ UNCHANGED <<voice, errors, history, latestResponse, query, isLoading, hydrate, submits, clears>>

\* ---------------------------------------------------------------- voice
\* toggleVoice without the capability probe
toggleVoiceNoProbe(capable) ==
  /\ IF isListening
       THEN /\ isListening' = FALSE
            /\ UNCHANGED <<engines, alertShown>>
       ELSE /\ UnusedEngines # {}
            /\ engines' = [engines EXCEPT ![NextSlot(UnusedEngines)] =
                             [status |-> "started", results |-> 0]]
            /\ UNCHANGED <<isListening, alertShown>>
  /\ response' = NoResponse
  /\ UNCHANGED <<session, errors, query>>

\* toggleVoice whose stop branch also ends the engines that are running
toggleVoiceStops(capable) ==
  /\ IF ~capable
       THEN /\ alertShown' = TRUE
            /\ UNCHANGED <<isListening, engines>>
       ELSE IF isListening
              THEN /\ isListening' = FALSE
                   /\ engines' = [e \in 1..MaxEngines |->
                                    IF e \in Running
                                      THEN [engines[e] EXCEPT !.status = "ended"]
                                      ELSE engines[e]]
                   /\ UNCHANGED alertShown
              ELSE /\ UnusedEngines # {}
                   /\ engines' = [engines EXCEPT ![NextSlot(UnusedEngines)] =
                                    [status |-> "started", results |-> 0]]
                   /\ UNCHANGED <<isListening, alertShown>>
  /\ response' = NoResponse
  /\ UNCHANGED <<session, errors, query>>

\* toggleVoice; capable tells whether window exposes SpeechRecognition or
\* webkitSpeechRecognition when the button is clicked
toggleVoice(capable) ==
  /\ IF ~capable
       THEN /\ alertShown' = TRUE
            /\ UNCHANGED <<isListening, engines>>
       ELSE IF isListening
              THEN /\ isListening' = FALSE
                   /\ UNCHANGED <<engines, alertShown>>
              ELSE /\ UnusedEngines # {}
                   /\ engines' = [engines EXCEPT ![NextSlot(UnusedEngines)] =
                                    [status |-> "started", results |-> 0]]
                   /\ UNCHANGED <<isListening, alertShown>>
  /\ response' = NoResponse
  /\ UNCHANGED <<session, errors, query>>

\* recognition.onstart = () => setIsListening(true)
OnStart(e) ==
  /\ engines[e].status = "started"
  /\ engines' = [engines EXCEPT ![e].status = "listening"]
  /\ isListening' = TRUE
  /\ response' = NoResponse
  /\ UNCHANGED <<session, errors, query, alertShown>>

\* an onresult that keeps what was typed
OnResultKeepsTyped(e, transcript) ==
  /\ engines[e].status = "listening"
  /\ engines[e].results = 0
  /\ engines' = [engines EXCEPT ![e].results = 1]
  /\ query' = IF query = "" THEN transcript ELSE query
  /\ response' = NoResponse
  /\ UNCHANGED <<session, errors, isListening, alertShown>>

\* recognition.onresult: setQuery(event.results[0][0].transcript).  The
\* engine is created with interimResults = false and is not continuous: it
\* delivers at most one result, and none when no speech is recognised.
OnResult(e, transcript) ==
  /\ engines[e].status = "listening"
  /\ engines[e].results = 0
  /\ engines' = [engines EXCEPT ![e].results = 1]
  /\ query' = transcript
  /\ response' = NoResponse
  /\ UNCHANGED <<session, errors, isListening, alertShown>>

\* recognition.onend = () => setIsListening(false)
OnEnd(e) ==
  /\ e \in Running
  /\ engines' = [engines EXCEPT ![e].status = "ended"]
  /\ isListening' = FALSE
  /\ response' = NoResponse
  /\ UNCHANGED <<session, errors, query, alertShown>>

\* ---------------------------------------------------------------- system
Next ==
  \/ \E data \in APIResponse : HydrateThen(data)
  \/ HydrateCatch
  \/ Submit
  \/ \E k \in 1..MaxSubmits, data \in APIResponse : SubmitThen(k, data)
  \/ \E k \in 1..MaxSubmits : SubmitCatch(k)
  \/ clearChat
  \/ \E k \in 1..MaxClears, body \in ClearBodies : ClearThen(k, body)
  \/ \E k \in 1..MaxClears : ClearThrow(k)
  \/ \E t \in QueryTexts : TypeQuery(t)
  \/ \E f \in Files \cup {"none"} : AttachImage(f)
  \/ \E f \in Files \cup {"none"} : AttachDoc(f)

Spec == Init /\ [][Next]_vars

\* the attachment slot through its inputs and the submissions that send it
NextAttach ==
  \/ \E f \in MoreFiles \cup {"none"} : AttachImage(f)
  \/ \E f \in MoreFiles \cup {"none"} : AttachDoc(f)
  \/ \E t \in QueryTexts : TypeQuery(t)
  \/ Submit
  \/ \E k \in 1..MaxSubmits, data \in APIResponse : SubmitThen(k, data)
  \/ \E k \in 1..MaxSubmits : SubmitCatch(k)

SpecAttach == Init /\ [][NextAttach]_vars

\* the voice button, the callbacks of the engines and the text field
NextVoice ==
  \/ \E capable \in BOOLEAN : toggleVoice(capable)
  \/ \E e \in 1..MaxEngines : OnStart(e)
  \/ \E e \in 1..MaxEngines, t \in Transcripts : OnResult(e, t)
  \/ \E e \in 1..MaxEngines : OnEnd(e)
  \/ \E t \in QueryTexts : TypeQuery(t)

SpecVoice == Init /\ [][NextVoice]_vars

\* ================================================================ claims
\* steps of the requests, recognised by what they do to the request tables
SubmitSent(k) == submits[k].status = "unused" /\ submits'[k].status = "sent"

SubmitFailed(k) == submits[k].status = "sent" /\ submits'[k].status = "rejected"

ClearSent(c) == clears[c] = "unused" /\ clears'[c] = "sent"

ClearCompleted(c) == clears[c] = "sent" /\ clears'[c] = "resolved"

ClearFailed(c) == clears[c] = "sent" /\ clears'[c] = "rejected"

HumanMessage(q) == [type |-> "human", content |-> q]

\* C1 - Hydration: right after the hydrate continuation has run on a body
\* {history: H, latest_response: r}, history is H, element for element, and
\* latestResponse is r (undefined when the body has no latest_response).
C1_Hydration ==
  response.of = "hydrate" =>
    /\ latestResponse = response.latest_response
    /\ response.hasHistory => history = response.history

C1_Witness ==
  /\ response.of = "hydrate"
  /\ response.hasHistory
  /\ Len(response.history) = 2
  /\ response.history[1] # response.history[2]
  /\ response.latest_response \in Answers
  /\ history = response.history
  /\ latestResponse = response.latest_response

\* C2 - Optimistic append: the step that sends a submit request appends one
\* Human message holding the current query to the end of history, and the
\* request is still in flight after it.
C2_OptimisticAppend ==
  [][\A k \in 1..MaxSubmits :
       SubmitSent(k) =>
         /\ history' = Append(history, HumanMessage(query))
         /\ Len(history') = Len(history) + 1
         /\ k \in InFlight']_vars

C2_Witness ==
  /\ InFlight # {}
  /\ Len(history) = 3
  /\ history[3] = HumanMessage("a")
  /\ hydrate = "resolved"

\* C3 - Reconcile replaces history: right after the success continuation of a
\* submission has run on a body with a history, history is that history; the
\* optimistic entry is not kept on top of it.
C3_ReconcileHistory ==
  (response.of = "submit" /\ response.hasHistory) =>
    /\ history = response.history
    /\ Len(history) = Len(response.history)

C3_Witness ==
  /\ response.of = "submit"
  /\ response.hasHistory
  /\ Len(response.history) = 1
  /\ history = response.history
  /\ hydrate = "rejected"

\* C4 - Reconcile replaces latest: right after the success continuation of a
\* submission has run, latestResponse is the latest_response of the body
\* (undefined when the body has none).
C4_ReconcileLatest ==
  response.of = "submit" => latestResponse = response.latest_response

\* C5 - No rollback: the step in which a submission fails leaves history as
\* it is, so an optimistic entry at its end stays at its end with nothing
\* after it.
C5_NoRollback ==
  [][\A k \in 1..MaxSubmits : SubmitFailed(k) => history' = history]_vars

C5_Witness ==
  /\ submits[1].status = "rejected"
  /\ submits[2].status = "unused"
  /\ hydrate = "pending"
  /\ \A c \in 1..MaxClears : clears[c] = "unused"
  /\ history = <<HumanMessage("a")>>
  /\ ~isLoading

C7_Admission ==
  (query = "" /\ attachedFile = NoFile) => ~ENABLED (Submit /\ vars' # vars)

C7_Witness ==
  /\ query = ""
  /\ attachedFile = NoFile
  /\ SubmitEnabled
  /\ UnusedSubmits # {}
  /\ history # <<>>
  /\ ENABLED Submit

\* C8 - Single flight: at most one submit request is in flight, isLoading is
\* true while one is, and while isLoading is true the submit event cannot be
\* raised.
C8_SingleFlight ==
  /\ Cardinality(InFlight) <= 1
  /\ InFlight # {} => isLoading
  /\ isLoading => ~ENABLED Submit

C8_Witness ==
  /\ submits[1].status \in {"resolved", "rejected"}
  /\ InFlight = {2}
  /\ isLoading
  /\ query # ""

\* C9 - Clear/submit race: no step of a clear request touches a submit
\* request, so a submission in flight stays in flight across a clear and its
\* success continuation still runs.
C9_ClearDoesNotCancel ==
  [][clears' # clears => (submits' = submits /\ isLoading' = isLoading)]_vars

\* the clear has emptied the store while submission k is in flight, and the
\* success continuation of k can fill history and latestResponse again
C9_Witness ==
  \E k \in InFlight :
    /\ \E c \in 1..MaxClears : clears[c] = "resolved"
    /\ hydrate # "resolved"
    /\ history = <<>>
    /\ latestResponse = Absent
    /\ ENABLED (/\ \E data \in APIResponse : SubmitThen(k, data)
                /\ history' # <<>>
                /\ latestResponse' # Absent)

\* C10 - Clear: the step in which a clear request completes leaves history
\* empty and latestResponse undefined whatever the body; the step that sends
\* the request and the step in which it throws leave both as they are.
C10_Clear ==
  [][\A c \in 1..MaxClears :
       /\ ClearCompleted(c) => (history' = <<>> /\ latestResponse' = Absent)
       /\ ClearSent(c) => UNCHANGED <<history, latestResponse>>
       /\ ClearFailed(c) => UNCHANGED <<history, latestResponse>>]_vars

C10_Witness ==
  /\ response.of = "clear"
  /\ response.body = "err"
  /\ hydrate = "resolved"
  /\ submits[1].status = "resolved"
  /\ history = <<>>
  /\ latestResponse = Absent

\* C11 - Clear idempotence: with history empty and latestResponse undefined
\* a click on clear still sends a request, and the completion of a clear
\* request then leaves history empty and latestResponse undefined.
C11_ClearIdempotent ==
  (history = <<>> /\ latestResponse = Absent) =>
    /\ UnusedClears # {} => ENABLED (clearChat /\ \E c \in 1..MaxClears : ClearSent(c))
    /\ \A c \in 1..MaxClears, body \in ClearBodies :
         clears[c] = "sent" =>
           /\ ENABLED ClearThen(c, body)
           /\ ~ENABLED (/\ ClearThen(c, body)
                        /\ ~(history' = <<>> /\ latestResponse' = Absent))

C11_Witness ==
  /\ clears[1] = "resolved"
  /\ clears[2] = "resolved"
  /\ response.of = "clear"
  /\ hydrate = "rejected"
  /\ UnusedSubmits = 1..MaxSubmits
  /\ history = <<>>
  /\ latestResponse = Absent

HasField(formData, n) == \E i \in 1..Len(formData) : formData[i].name = n

FieldValues(formData, n) == {formData[i].value : i \in {j \in 1..Len(formData) : formData[j].name = n}}

\* C12 - Single attachment: the slot is empty or holds one file with its
\* kind, and an attach through either input always leaves exactly the file
\* just chosen, with the kind of that input, whatever the slot held.
C12_SingleAttachment ==
  /\ attachedFile \in {NoFile} \cup [file : MoreFiles, type : {"image", "doc"}]
  /\ \A f \in MoreFiles :
       /\ ENABLED AttachImage(f)
       /\ ~ENABLED (AttachImage(f) /\ attachedFile' # [file |-> f, type |-> "image"])
       /\ ENABLED AttachDoc(f)
       /\ ~ENABLED (AttachDoc(f) /\ attachedFile' # [file |-> f, type |-> "doc"])

\* a request in flight still carries image f1, the slot now holds document f2
C12_Witness ==
  /\ InFlight = {1}
  /\ FieldValues(submits[1].formData, "image") = {"f1"}
  /\ attachedFile = [file |-> "f2", type |-> "doc"]

\* C13 - No dual attachment: the payload of every request sent has the query
\* field with the query text, never both an image and a document field, an
\* image field exactly when the slot holds an image and a document field
\* exactly when it holds a document, each with the file of the slot.
C13_NoDualAttachment ==
  [][\A k \in 1..MaxSubmits :
       SubmitSent(k) =>
         LET formData == submits'[k].formData
         IN  /\ FieldValues(formData, "query") = {query}
             /\ ~(HasField(formData, "image") /\ HasField(formData, "document"))
             /\ HasField(formData, "image") <=> attachedFile.type = "image"
             /\ HasField(formData, "document") <=> attachedFile.type = "doc"
             /\ attachedFile # NoFile =>
                  FieldValues(formData, "image") \cup FieldValues(formData, "document")
                    = {attachedFile.file}]_vars

C13_Witness ==
  /\ InFlight = {2}
  /\ Len(submits[2].formData) = 2
  /\ FieldValues(submits[2].formData, "document") = {"f2"}
  /\ FieldValues(submits[2].formData, "query") = {""}

SubmitResolved(k) == submits[k].status = "sent" /\ submits'[k].status = "resolved"

\* C14 - Attachment consumed on success only: the step in which a submission
\* succeeds leaves the slot empty and the query empty; the step in which it
\* fails leaves both as they are.
C14_ConsumedOnSuccessOnly ==
  [][\A k \in 1..MaxSubmits :
       /\ SubmitResolved(k) => (attachedFile' = NoFile /\ query' = "")
       /\ SubmitFailed(k) => UNCHANGED <<attachedFile, query>>]_vars

C14_Witness ==
  /\ submits[1].status = "rejected"
  /\ submits[2].status = "unused"
  /\ ~isLoading
  /\ attachedFile = [file |-> "f1", type |-> "image"]
  /\ query = "a"
  /\ history = <<HumanMessage("a")>>

AnyStep == Next \/ NextAttach \/ NextVoice

\* C15 - Attachment clear has two triggers: a successful submission, or a
\* user action that is available whenever the slot is full and empties it
\* without a submission being sent or settled.
C15_ExplicitClear ==
  attachedFile # NoFile =>
    ENABLED (AnyStep /\ attachedFile' = NoFile /\ submits' = submits)

\* C15 as amended - one trigger: the slot goes from full to empty only in
\* the step in which a submission succeeds, and that step always empties it.
C15_ClearedBySuccessOnly ==
  [][/\ (attachedFile # NoFile /\ attachedFile' = NoFile) =>
          \E k \in 1..MaxSubmits : SubmitResolved(k)
     /\ \A k \in 1..MaxSubmits : SubmitResolved(k) => attachedFile' = NoFile]_vars

C15_Witness ==
  /\ response.of = "submit"
  /\ submits[1].status = "resolved"
  /\ submits[2].status = "unused"
  /\ attachedFile = NoFile
  /\ \E i \in 1..Len(history) : history[i] = HumanMessage("")

\* C16 - Capability unavailable: a click on the voice button while the host
\* exposes no speech recognition raises the alert and changes neither
\* isListening nor the engines nor the query.
C16_CapabilityUnavailable ==
  /\ ENABLED toggleVoice(FALSE)
  /\ ~ENABLED (/\ toggleVoice(FALSE)
               /\ ~(alertShown' /\ UNCHANGED <<isListening, engines, query>>))

C16_Witness ==
  /\ alertShown
  /\ ~isListening
  /\ UnusedEngines = 1..MaxEngines
  /\ query = "a"

\* C17 - Speech transcript exclusivity: every engine that has ended has
\* delivered exactly one result.
C17_ExactlyOneTranscript ==
  \A e \in 1..MaxEngines : engines[e].status = "ended" => engines[e].results = 1

\* C17 as amended - an engine delivers at most one result before it ends
\* (none when it ends without recognising speech), and the step that
\* delivers it sets the query to the transcript, whatever the query held.
C17_AtMostOneTranscript ==
  [][\A e \in 1..MaxEngines :
       /\ engines'[e].results <= 1
       /\ engines'[e].results # engines[e].results =>
            /\ engines[e].results = 0
            /\ engines[e].status = "listening"
            /\ query' \in Transcripts]_vars

C17_Witness ==
  /\ engines[1] = [status |-> "ended", results |-> 1]
  /\ engines[2] = [status |-> "ended", results |-> 0]
  /\ query \in Transcripts

\* C18 - Speech stop race: a click on the voice button while isListening is
\* true sets isListening to false and leaves every engine as it is, so an
\* engine goes on running and can still deliver its result.
C18_StopLeavesEngine ==
  isListening =>
    /\ ENABLED toggleVoice(TRUE)
    /\ ~ENABLED (/\ toggleVoice(TRUE)
                 /\ ~(isListening' = FALSE /\ engines' = engines))

\* isListening is false again while the only engine is still listening, and
\* its result can overwrite what was typed since
C18_Witness ==
  /\ ~isListening
  /\ engines[1] = [status |-> "listening", results |-> 0]
  /\ \A e \in 2..MaxEngines : engines[e] = NoEngine
  /\ query = "a"
  /\ ENABLED (/\ \E t \in Transcripts : OnResult(1, t)
              /\ query' # query
              /\ ~isListening')

\* C19 - Error propagation: every failure of hydrate, submit and clear is
\* caught and logged by its handler, and no failure is left unhandled.
C19_AllFailuresCaught ==
  /\ unhandled = {}
  /\ hydrate = "rejected" => "Failed to load history:" \in console
  /\ (\E k \in 1..MaxSubmits : submits[k].status = "rejected") =>
       "Error submitting query:" \in console

HydrateFailed == hydrate = "pending" /\ hydrate' = "rejected"

\* C20 - Hydrate failure leaves the session empty: the step in which the
\* load request fails ends with history empty and latestResponse undefined.
C20_EmptyAfterFailure ==
  [][HydrateFailed => (history' = <<>> /\ latestResponse' = Absent)]_vars

\* C20 as amended - the step in which the load request fails leaves history
\* and latestResponse as they are; they are empty after it when no
\* submission was admitted before it.
C20_FailureLeavesStore ==
  [][HydrateFailed =>
       /\ UNCHANGED <<history, latestResponse>>
       /\ UnusedSubmits = 1..MaxSubmits => (history' = <<>> /\ latestResponse' = Absent)]_vars

C20_Witness ==
  /\ hydrate = "rejected"
  /\ "Failed to load history:" \in console
  /\ InFlight = {1}
  /\ history = <<HumanMessage("a")>>
  /\ \A c \in 1..MaxClears : clears[c] = "unused"

\* a sequence the server can have sent, followed by Human messages of the
\* user
ServerThenLocal(h) ==
  \E i \in 0..Len(h) :
    /\ SubSeq(h, 1, i) \in ServerHistories
    /\ \A j \in (i + 1)..Len(h) : h[j].type = "human" /\ h[j].content \in QueryTexts

\* C21 - History is append-only and order-preserving: every step that
\* changes history either appends the Human message of the submission it
\* sends to the end, or replaces history by the history of the body just
\* received (empty for a hydrate body without one), or empties it on the
\* completion of a clear; so history is always a server sequence followed by
\* local Human messages.
C21_AppendOnly ==
  [][/\ history' # history =>
          \/ /\ \E k \in 1..MaxSubmits : SubmitSent(k)
             /\ history' = Append(history, HumanMessage(query))
          \/ /\ response'.of \in {"hydrate", "submit"}
             /\ history' = response'.history
          \/ /\ response'.of = "clear"
             /\ history' = <<>>
     /\ ServerThenLocal(history')]_vars

C21_Witness ==
  /\ Len(history) = 3
  /\ history[1].type = "ai"
  /\ history[2].type = "ai"
  /\ history[3] = HumanMessage("")
  /\ InFlight = {2}

\* C22 - isLoading tracks the submission in flight: isLoading is true
\* exactly while a submit request is in flight; the step that sends a request
\* sets it and the step in which the request settles, on success or on
\* failure, resets it.
C22_LoadingTracksFlight ==
  [][/\ isLoading' <=> InFlight' # {}
     /\ \A k \in 1..MaxSubmits :
          /\ SubmitSent(k) => isLoading'
          /\ (SubmitResolved(k) \/ SubmitFailed(k)) => ~isLoading']_vars

C22_Witness ==
  /\ submits[1].status = "rejected"
  /\ submits[2].status = "resolved"
  /\ response.of = "submit"
  /\ ~isLoading
  /\ InFlight = {}

HydrateApplied == hydrate = "pending" /\ hydrate' = "resolved"

\* C23 - Hydration precedes reconciliation: the hydrate response is never
\* applied once a submission has been admitted.
C23_HydrateBeforeSubmit ==
  [][HydrateApplied => UnusedSubmits = 1..MaxSubmits]_vars

\* C24 - Only sent input is consumed: in the step in which a submission
\* succeeds, the query and the attachment that are reset are the ones that
\* were sent in its payload.
C24_OnlySentConsumed ==
  [][\A k \in 1..MaxSubmits :
       SubmitResolved(k) =>
         /\ submits[k].formData = BuildFormData(query, attachedFile)
         /\ FieldValues(submits[k].formData, "query") = {query}]_vars

\* C25 - At most one recognition session: at most one engine is started and
\* not yet ended.
C25_OneEngineRunning ==
  Cardinality(Running) <= 1

====
